---- MODULE Spec2Model ----
(***************************************************************************)
(* Model of tk-multi-reviewsubmission-ovfx.                                *)
(*                                                                         *)
(*   SpecApp : MultiReviewSubmissionApp.render_and_submit (src/app.py)     *)
(*   Spec    : RenderMedia.render and the helpers it calls                 *)
(*             (src/hooks/tk-nuke/render_media.py)                         *)
(*   SpecPlan: RenderMedia.wrangleData and TranscodeFile applied to a      *)
(*             range of frame ranges                                       *)
(*                                                                         *)
(* Python locals are variables of the same name.  An optional value is a  *)
(* tuple: <<>> is Python's None, <<v>> is the value v.                     *)
(***************************************************************************)
EXTENDS Integers, Sequences, FiniteSets, TLC

VARIABLES
    \* ---- src/app.py: render_and_submit ----
    app_pc,             \* position in render_and_submit
    upload_to_shotgun,  \* setting read at line 52
    store_on_disk,      \* setting read at line 53
    fields,             \* the caller's fields dictionary
    fields_copy,        \* the local 'fields' after copy.copy (line 61)
    app_log,            \* what the call did, in order
    output_on_disk,     \* a file exists at output_path
    sg_version,         \* the value render_and_submit returns
    app_exc,            \* exception that left render_and_submit
    \* ---- src/hooks/tk-nuke/render_media.py: render ----
    pc,                 \* position in render
    ctx,                \* self.__app.context: [task, step]
    input_path,         \* basename of input_path, as tokens
    output_path,        \* path of the master movie, as tokens
    color_space,        \* the color_space argument / local
    first_frame,
    last_frame,
    version,
    padding,            \* setting version_number_padding
    rootProxy,          \* nuke.root()['proxy']
    rootFps,            \* nuke.root()['fps']
    allWrites,          \* write nodes of the artist's script
    read,               \* the Read node 'source'
    group,              \* the ephemeral group node
    output_node,        \* the master Write node
    data,               \* the plan wrangleData returned
    found,              \* result of the PublishedFile query
    path,               \* findCubeFile's local 'path'
    cubeFile,
    version_label,
    prj,
    description,
    verSlate,
    current_user,
    comment,
    burn,               \* the pasted burn-in node and its knobs
    slate,              \* locals of exrSlateRender / movSlateRender
    transcode,          \* what TranscodeFile handed to the encoders
    exc,                \* exception in flight / that left render
    events,             \* what render did, in order
    prevData            \* the plan of the previous render call

appVars == <<app_pc, upload_to_shotgun, store_on_disk, fields, fields_copy,
             app_log, output_on_disk, sg_version, app_exc>>

hostVars == <<rootProxy, rootFps, allWrites>>

argVars == <<ctx, input_path, output_path, first_frame, last_frame, version, padding>>

localVars == <<color_space, read, group, output_node, data, found, path, cubeFile,
               version_label, prj, description, verSlate, current_user,
               comment, burn, slate, transcode, exc, events>>

renderVars == <<pc, argVars, hostVars, localVars, prevData>>

vars == <<appVars, renderVars>>

None == << >>
Some(v) == <<v>>
Get(o) == o[1]

(***************************************************************************)
(* src/app.py                                                              *)
(***************************************************************************)

\* Template keys of class SequenceKey (line 64) and the width/height keys.
SequenceKeys == {"SEQ"}
FieldKeys == {"name", "version", "SEQ", "width"}

FieldValues(k) ==
    CASE k = "name" -> {"shot010"}
      [] k = "version" -> {"3", "7"}
      [] k = "SEQ" -> {"1001"}
      [] k = "width" -> {"640"}

\* The dictionaries a caller may pass.
CallerFields ==
    UNION { { f \in [K -> {"shot010", "3", "7", "1001", "640"}] :
                \A k \in K : f[k] \in FieldValues(k) } : K \in SUBSET FieldKeys }

movie_width == "1920"
movie_height == "1080"

Progress(pct, msg) == [ev |-> "progress", pct |-> pct, msg |-> msg]
Ev(name) == [ev |-> name]

\* line 54: if not upload_to_shotgun and not store_on_disk
NotConfigured_mut(upload, store) == ~upload /\ store
NotConfigured(upload, store) == ~upload /\ ~store

\* d with d[k] = v, adding the key when absent (fields[key] = value)
DictSet(d, k, v) == [x \in DOMAIN d \cup {k} |-> IF x = k THEN v ELSE d[x]]

RECURSIVE DictSetAll(_, _, _)
DictSetAll(d, keys, v) ==
    IF keys = {} THEN d
    ELSE LET k == CHOOSE x \in keys : TRUE
         IN DictSetAll(DictSet(d, k, v), keys \ {k}, v)

InitApp ==
    /\ app_pc = "idle"
    /\ upload_to_shotgun \in BOOLEAN
    /\ store_on_disk \in BOOLEAN
    /\ fields \in CallerFields
    /\ fields_copy = None
    /\ app_log = << >>
    /\ output_on_disk \in BOOLEAN
    /\ sg_version = None
    /\ app_exc = None

\* lines 49-56: read the settings; warn and return None when neither is set
CheckSettings ==
    /\ app_pc = "idle"
    /\ IF NotConfigured(upload_to_shotgun, store_on_disk)
       THEN /\ app_log' = Append(app_log, Ev("log_warning"))
            /\ sg_version' = None
            /\ app_pc' = "returned"
       ELSE /\ app_pc' = "configured"
            /\ UNCHANGED <<app_log, sg_version>>
    /\ UNCHANGED renderVars
    /\ UNCHANGED <<upload_to_shotgun, store_on_disk, fields, fields_copy,
                   output_on_disk, app_exc>>

\* line 58
Progress10 ==
    /\ app_pc = "configured"
    /\ app_log' = Append(app_log, Progress(10, "Preparing"))
    /\ app_pc' = "prepare"
    /\ UNCHANGED renderVars
    /\ UNCHANGED <<upload_to_shotgun, store_on_disk, fields, fields_copy,
                   output_on_disk, sg_version, app_exc>>

\* lines 60-78: copy the fields, override the sequence keys, build both paths.
\* template.apply_fields is sgtk's and raises TankError on a missing key.
PrepareFields_mut ==
    /\ app_pc = "prepare"
    /\ LET copied == DictSetAll(fields, SequenceKeys, "FORMAT: %d")
           sized == DictSet(DictSet(copied, "width", movie_width),
                            "height", movie_height)
       IN \/ /\ fields' = sized
             /\ fields_copy' = Some(sized)
             /\ app_pc' = "prepared"
             /\ UNCHANGED app_exc
          \/ /\ fields' = copied
             /\ fields_copy' = Some(copied)
             /\ app_exc' = Some("TankError")
             /\ app_pc' = "raised"
    /\ UNCHANGED renderVars
    /\ UNCHANGED <<upload_to_shotgun, store_on_disk, app_log,
                   output_on_disk, sg_version>>

PrepareFields ==
    /\ app_pc = "prepare"
    /\ LET copied == DictSetAll(fields, SequenceKeys, "FORMAT: %d")
           sized == DictSet(DictSet(copied, "width", movie_width),
                            "height", movie_height)
       IN \/ /\ fields_copy' = Some(sized)
             /\ app_pc' = "prepared"
             /\ UNCHANGED app_exc
          \/ /\ fields_copy' = Some(copied)
             /\ app_exc' = Some("TankError")
             /\ app_pc' = "raised"
    /\ UNCHANGED renderVars
    /\ UNCHANGED <<upload_to_shotgun, store_on_disk, fields, app_log,
                   output_on_disk, sg_version>>

\* line 81
Progress20_mut ==
    /\ app_pc = "prepared"
    /\ app_pc' = "render"
    /\ UNCHANGED renderVars
    /\ UNCHANGED <<upload_to_shotgun, store_on_disk, fields, fields_copy,
                   app_log, output_on_disk, sg_version, app_exc>>

Progress20 ==
    /\ app_pc = "prepared"
    /\ app_log' = Append(app_log, Progress(20, "Rendering movie"))
    /\ app_pc' = "render"
    /\ UNCHANGED renderVars
    /\ UNCHANGED <<upload_to_shotgun, store_on_disk, fields, fields_copy,
                   output_on_disk, sg_version, app_exc>>

\* lines 82-83: Renderer().render_movie_in_nuke is entered
RenderStart ==
    /\ app_pc = "render"
    /\ app_log' = Append(app_log, Ev("render_start"))
    /\ app_pc' = "rendering"
    /\ UNCHANGED renderVars
    /\ UNCHANGED <<upload_to_shotgun, store_on_disk, fields, fields_copy,
                   output_on_disk, sg_version, app_exc>>

\* lines 83-88: render_movie_in_nuke returns (the movie is on disk) or raises
RenderEnd ==
    /\ app_pc = "rendering"
    /\ \/ /\ app_log' = Append(app_log, Ev("render_return"))
          /\ output_on_disk' = TRUE
          /\ app_pc' = "rendered"
          /\ UNCHANGED app_exc
       \/ /\ app_exc' = Some("RenderError")
          /\ app_pc' = "raised"
          /\ UNCHANGED <<app_log, output_on_disk>>
    /\ UNCHANGED renderVars
    /\ UNCHANGED <<upload_to_shotgun, store_on_disk, fields, fields_copy,
                   sg_version>>

\* line 90
Progress50 ==
    /\ app_pc = "rendered"
    /\ app_log' = Append(app_log,
                     Progress(50, "Creating Shotgun Version and uploading movie"))
    /\ app_pc' = "submit"
    /\ UNCHANGED renderVars
    /\ UNCHANGED <<upload_to_shotgun, store_on_disk, fields, fields_copy,
                   output_on_disk, sg_version, app_exc>>

\* lines 91-101: Submitter().submit_version returns the Version or raises
SubmitVersion ==
    /\ app_pc = "submit"
    /\ \/ /\ app_log' = app_log \o <<Ev("submit_start"), Ev("submit_return")>>
          /\ sg_version' = Some("Version")
          /\ app_pc' = "submitted"
          /\ UNCHANGED app_exc
       \/ /\ app_log' = Append(app_log, Ev("submit_start"))
          /\ app_exc' = Some("SubmitError")
          /\ app_pc' = "raised"
          /\ UNCHANGED sg_version
    /\ UNCHANGED renderVars
    /\ UNCHANGED <<upload_to_shotgun, store_on_disk, fields, fields_copy,
                   output_on_disk>>

\* lines 103-107: remove the movie when it is not to be kept, then return
RemoveAndReturn_mut ==
    /\ app_pc = "submitted"
    /\ IF output_on_disk
       THEN /\ output_on_disk' = FALSE
            /\ app_log' = Append(app_log, Ev("unlink"))
       ELSE UNCHANGED <<output_on_disk, app_log>>
    /\ app_pc' = "returned"
    /\ UNCHANGED renderVars
    /\ UNCHANGED <<upload_to_shotgun, store_on_disk, fields, fields_copy,
                   sg_version, app_exc>>

RemoveAndReturn ==
    /\ app_pc = "submitted"
    /\ IF ~store_on_disk /\ output_on_disk
       THEN /\ output_on_disk' = FALSE
            /\ app_log' = Append(app_log, Ev("unlink"))
       ELSE UNCHANGED <<output_on_disk, app_log>>
    /\ app_pc' = "returned"
    /\ UNCHANGED renderVars
    /\ UNCHANGED <<upload_to_shotgun, store_on_disk, fields, fields_copy,
                   sg_version, app_exc>>

NextApp ==
    \/ CheckSettings
    \/ Progress10
    \/ PrepareFields
    \/ Progress20
    \/ RenderStart
    \/ RenderEnd
    \/ Progress50
    \/ SubmitVersion
    \/ RemoveAndReturn


(***************************************************************************)
(* src/hooks/tk-nuke/render_media.py: pure helpers                         *)
(***************************************************************************)

\* line 389: interval = int(frames/50)
IntervalDivisor == 50

\* lines 387-403.  fps is nuke.root()['fps'].getValue(), read at line 397.
wrangleData_tiles_mut(ff, lf, fps) ==
    LET frames == lf - ff + 1
        interval == frames \div IntervalDivisor
    IN [frames |-> frames,
        fps |-> fps,
        interval |-> interval,
        num_frames |-> IF interval = 0 THEN interval ELSE frames \div interval,
        thumb |-> frames \div 2]

wrangleData_mut(ff, lf, fps) ==
    LET frames == lf - ff + 1
        interval == frames \div IntervalDivisor
    IN [frames |-> frames,
        fps |-> fps,
        interval |-> IF interval = 0 THEN frames ELSE interval,
        num_frames |-> IF interval = 0 THEN frames ELSE frames \div interval,
        thumb |-> frames \div 2]

wrangleData(ff, lf, fps) ==
    LET frames == lf - ff + 1
        interval == frames \div IntervalDivisor
    IN [frames |-> frames,
        fps |-> fps,
        interval |-> interval,
        num_frames |-> IF interval = 0 THEN frames ELSE frames \div interval,
        thumb |-> frames \div 2]

\* line 508: interval if interval > 1 else 1
FilmstripStride_mut(interval) == interval
FilmstripStride(interval) == IF interval > 1 THEN interval ELSE 1

\* "%0<n>d" % v for v >= 0: the decimal digits, left-padded with zeros to
\* at least n characters (lines 158-161)
RECURSIVE Zeros(_)
Zeros(n) == IF n <= 0 THEN "" ELSE "0" \o Zeros(n - 1)

ZeroPad(v, n) == LET s == ToString(v) IN Zeros(n - Len(s)) \o s

\* lines 163-169
VersionLabel(c, v, n) ==
    IF c.task # None THEN Get(c.task) \o ", v" \o ZeroPad(v, n)
    ELSE IF c.step # None THEN Get(c.step) \o ", v" \o ZeroPad(v, n)
    ELSE "v" \o ZeroPad(v, n)

\* str.replace(a, b) on a path held as a sequence of tokens, separators
\* being tokens of their own
Replace(p, a, b) == [i \in DOMAIN p |-> IF p[i] = a THEN b ELSE p[i]]

\* index of the first / last occurrence of token t in p, 0 when absent
FirstIndex(p, t) ==
    IF \E i \in DOMAIN p : p[i] = t
    THEN CHOOSE i \in DOMAIN p : p[i] = t /\ \A j \in 1..(i - 1) : p[j] # t
    ELSE 0

LastIndex(p, t) ==
    IF \E i \in DOMAIN p : p[i] = t
    THEN CHOOSE i \in DOMAIN p : p[i] = t /\ \A j \in (i + 1)..Len(p) : p[j] # t
    ELSE 0

\* os.path.splitext(basename)[1]: from the last dot on, empty without a dot
\* (line 182; the names used here do not start with a dot)
SplitextExt(name) ==
    LET i == LastIndex(name, ".")
    IN IF i = 0 THEN << >> ELSE SubSeq(name, i, Len(name))

\* lines 182 and 194: filename.split('.')[0]
FnSlate(name) ==
    LET d == FirstIndex(name, ".")
    IN IF d = 0 THEN name ELSE SubSeq(name, 1, d - 1)

\* lines 585-592: name of the Nuke script an image sequence was rendered by
NukeScriptName(name) ==
    LET d == FirstIndex(name, ".")
        base == IF d = 0 THEN name ELSE SubSeq(name, 1, d - 1)
        u == LastIndex(base, "_")
        code == IF u = 0 THEN << >> ELSE SubSeq(base, 1, u - 1)
        ver == SubSeq(base, u + 1, Len(base))
    IN code \o <<".">> \o ver \o <<".", "nk">>

\* lines 558-560: the loop keeps the path of the last 'Cube File' it meets
RECURSIVE CubeLoop(_, _)
CubeLoop(fs, p) ==
    IF fs = << >> THEN p
    ELSE CubeLoop(Tail(fs),
                  IF Head(fs).published_file_type = "Cube File"
                  THEN Some(Head(fs).local_path) ELSE p)

\* lines 562-565
CubeReturn(p) == IF p # None THEN Some(Replace(Get(p), "\\", "/")) ELSE None

\* lines 594-598: the description of the last matching 'Nuke Script'
RECURSIVE CommentLoop(_, _, _)
CommentLoop(fs, nk, c) ==
    IF fs = << >> THEN c
    ELSE CommentLoop(Tail(fs), nk,
                     IF Head(fs).published_file_type = "Nuke Script"
                        /\ Head(fs).code = nk
                     THEN Head(fs).description ELSE c)

\* str.lower() on the project names in use (line 644)
Lower(n) ==
    CASE n = "Demo" -> "demo"
      [] n = "DEMO" -> "demo"
      [] n = "Other" -> "other"
      [] OTHER -> n

\* lines 642-646: the last project whose lower-cased name matches; with no
\* match currProject is never bound and 'return currProject' raises
RECURSIVE ProjectLoop(_, _, _)
ProjectLoop(ps, name, cur) ==
    IF ps = << >> THEN cur
    ELSE ProjectLoop(Tail(ps), name,
                     IF Lower(Head(ps)) = Lower(name) THEN Some(Head(ps)) ELSE cur)

\* lines 843-852: cs is bound only when the colorspace knob starts with
\* 'default' (to the text between the brackets); otherwise the try block
\* finishes without binding it and line 852 raises UnboundLocalError
ShotgridColorspace(cs) ==
    CASE cs = "default (sRGB)" -> Some("sRGB")
      [] cs = "default (linear)" -> Some("linear")
      [] OTHER -> None

\* lines 859-889: (filetype, settings) of the last write node whose file
\* name is the review file's; None when there is none.  A 'raised' result
\* is shotgridWriteParse failing on a matching node.
RECURSIVE WriteLoop(_, _)
WriteLoop(nodes, cur) ==
    IF nodes = << >> THEN cur
    ELSE LET n == Head(nodes)
         IN IF ~n.matches THEN WriteLoop(Tail(nodes), cur)
            ELSE IF n.class = "WriteTank"
            THEN IF ShotgridColorspace(n.colorspace) = None
                 THEN [raised |-> TRUE, settings |-> None]
                 ELSE WriteLoop(Tail(nodes),
                        [raised |-> FALSE,
                         settings |-> Some([file_type |-> n.file_type,
                             colorspace |-> Get(ShotgridColorspace(n.colorspace))])])
            ELSE WriteLoop(Tail(nodes),
                        [raised |-> FALSE,
                         settings |-> Some([file_type |-> n.file_type,
                                            colorspace |-> n.colorspace])])

findWriteSettings(nodes) == WriteLoop(nodes, [raised |-> FALSE, settings |-> None])

\* os.path.dirname / os.path.basename / os.path.join on a path held as
\* tokens, "/" being the separator (lines 414-415, 524-529)
Dirname(p) ==
    LET i == LastIndex(p, "/")
    IN IF i = 0 THEN << >> ELSE SubSeq(p, 1, i - 1)

Basename(p) == SubSeq(p, LastIndex(p, "/") + 1, Len(p))

PathJoin(a, b) == a \o <<"/">> \o b

\* os.path.splitext(name)[0] (line 529)
SplitextRoot(name) ==
    LET i == LastIndex(name, ".")
    IN IF i = 0 THEN name ELSE SubSeq(name, 1, i - 1)

\* name.replace('.mov', suffix): every '.mov' of the name becomes the
\* suffix, a name without '.mov' is returned as it is (lines 414, 442, 469,
\* 495)
RECURSIVE ReplaceMov(_, _)
ReplaceMov(name, suffix) ==
    IF Len(name) < 2 THEN name
    ELSE IF name[1] = "." /\ name[2] = "mov"
    THEN suffix \o ReplaceMov(SubSeq(name, 3, Len(name)), suffix)
    ELSE <<Head(name)>> \o ReplaceMov(Tail(name), suffix)

\* lines 414-415, 442-443, 469, 495: the path each encoder writes
createMP4(input, ver) == PathJoin(ver, ReplaceMov(Basename(input), <<".", "mp4">>))

createWebM(input, ver) == PathJoin(ver, ReplaceMov(Basename(input), <<".", "webm">>))

createThumbnail(input, ver) ==
    PathJoin(ver, ReplaceMov(Basename(input), <<"_", "thumbnail", ".", "jpg">>))

createFilmstrip(input, ver) ==
    PathJoin(ver, ReplaceMov(Basename(input), <<"_", "filmstrip", ".", "jpg">>))

\* lines 524-529: <dir of the master>/transcodes/<name of the master
\* without its extension>
TranscodeDir(input) ==
    PathJoin(PathJoin(Dirname(input), <<"transcodes">>),
             SplitextRoot(Basename(input)))

\* lines 533-536: what TranscodeFile hands to the four encoders, with the
\* stride and the tile count createFilmstrip puts in its filter (503-509)
EncoderArgs(input, d) ==
    LET ver == TranscodeDir(input)
    IN [fps |-> d.fps,
        thumb |-> d.thumb,
        stride |-> FilmstripStride(d.interval),
        tiles |-> d.num_frames,
        mp4 |-> createMP4(input, ver),
        webm |-> createWebM(input, ver),
        thumbnail |-> createThumbnail(input, ver),
        filmstrip |-> createFilmstrip(input, ver)]



(***************************************************************************)
(* Inputs of render, the host application and the tracking service         *)
(***************************************************************************)

FirstFrame == 1001

\* frame rates of the project: the one a script starts with, and the ones
\* the artist may switch to
FpsSet == {24, 25}
ProjectFps == CHOOSE f \in FpsSet : \A g \in FpsSet : f <= g

Contexts == [task : {None, Some("comp")}, step : {None, Some("Comp")}]

ProjectName == "Demo"

MovInput == <<"shot010", "_", "comp", "_", "v002", ".", "mov">>
ExrInput == <<"shot010", "_", "comp", "_", "v002", ".", "%04d", ".", "exr">>
InputPaths == {MovInput, ExrInput}

\* the master movie's path (the output_path argument): the extension is the
\* one the app's movie_path_template gives it
MovOutput == <<"V:", "/", "review", "/", "shot010", "_", "v002", ".", "mov">>
Mp4Output == <<"V:", "/", "review", "/", "shot010", "_", "v002", ".", "mp4">>

\* the jobs render is called with: the master path, the number of frames,
\* the version and the version_number_padding setting
RenderJobs ==
    { [output_path |-> MovOutput, frames |-> 49, version |-> 7, padding |-> 3],
      [output_path |-> MovOutput, frames |-> 50, version |-> 3, padding |-> 4],
      [output_path |-> Mp4Output, frames |-> 100, version |-> 3, padding |-> 4],
      [output_path |-> MovOutput, frames |-> 100, version |-> 7, padding |-> 3] }

\* write nodes of the artist's script: class, whether its file name is the
\* review file's, and the settings the parsers read
WriteNode(class, matches, cs) ==
    [class |-> class, matches |-> matches, file_type |-> "mov", colorspace |-> cs]

WriteNodeLists ==
    { <<WriteNode("Write", FALSE, "sRGB")>>,
      <<WriteNode("Write", TRUE, "linear")>>,
      <<WriteNode("Write", FALSE, "sRGB"), WriteNode("WriteTank", TRUE, "default (sRGB)")>>,
      <<WriteNode("WriteTank", TRUE, "sRGB")>> }

\* PublishedFile records of the shot/task
MaxPubVersion == 2
MaxFound == 2
PubTypes == {"Cube File", "Nuke Script"}

PubRecord(type, v) ==
    [published_file_type |-> type,
     version_number |-> v,
     local_path |-> <<"V:", "\\", "luts", "\\", "grade_v" \o ToString(v) \o ".cube">>,
     code |-> <<"shot010", "_", "comp", ".", "v00" \o ToString(v), ".", "nk">>,
     description |-> Some("notes v" \o ToString(v))]

Published == { PubRecord(t, v) : t \in PubTypes, v \in 1..MaxPubVersion }

\* what shotgun.find returns with order version_number desc (lines 552-556)
QueryResults ==
    UNION { { s \in [1..n -> Published] :
                \A i \in 1..(n - 1) : s[i].version_number >= s[i + 1].version_number }
            : n \in 0..MaxFound }

ProjectResults == { << >>, <<"Other">>, <<"DEMO", "Other">> }

ShotResults ==
    { None,
      Some([description |-> Some("scope"), sg_client_version |-> None]),
      Some([description |-> Some("scope"), sg_client_version |-> Some(5)]) }

UserResults == { None, Some("artist") }


(***************************************************************************)
(* RenderMedia.render (lines 74-266), one action per step                  *)
(***************************************************************************)

NoLocals ==
    /\ read = None
    /\ group = "none"
    /\ output_node = None
    /\ data = None
    /\ found = << >>
    /\ path = None
    /\ cubeFile = None
    /\ version_label = None
    /\ prj = None
    /\ description = None
    /\ verSlate = None
    /\ current_user = None
    /\ comment = None
    /\ burn = None
    /\ slate = None
    /\ transcode = None
    /\ exc = None
    /\ events = << >>

InitRender ==
    /\ pc = "start"
    /\ ctx \in Contexts
    /\ input_path \in InputPaths
    /\ color_space \in {None, Some("sRGB")}
    /\ first_frame = FirstFrame
    /\ \E job \in RenderJobs :
          /\ output_path = job.output_path
          /\ last_frame = first_frame + job.frames - 1
          /\ version = job.version
          /\ padding = job.padding
    /\ rootProxy \in BOOLEAN
    /\ rootFps = ProjectFps
    /\ allWrites \in WriteNodeLists
    /\ NoLocals
    /\ prevData = None

\* an exception raised inside the try block (lines 113-246): control goes
\* to the finally clause with the exception in flight
Raise(type, at) ==
    /\ exc' = Some([type |-> type, at |-> at])
    /\ pc' = "finally"

\* lines 102-112: collect the write nodes, create the group and enter it
StartRender ==
    /\ pc = "start"
    /\ group' = "open"
    /\ events' = Append(events, "group_create")
    /\ pc' = "read"
    /\ UNCHANGED appVars
    /\ UNCHANGED <<ctx, input_path, output_path, first_frame, last_frame, version,
                   padding, rootProxy, rootFps, allWrites, color_space, read,
                   output_node, data, found, path, cubeFile, version_label,
                   prj, description, verSlate, current_user, comment, burn,
                   slate, transcode, exc, prevData>>

\* str normalisation of lines 122-128: 'default (sRGB)' -> 'sRGB'
NormalizeDefault(cs) ==
    CASE cs = "default (sRGB)" -> "sRGB"
      [] cs = "default (linear)" -> "linear"
      [] OTHER -> cs

ReadDefaultColorspace == "default (sRGB)"

\* lines 114-128
CreateRead ==
    /\ pc = "read"
    /\ IF color_space # None
       THEN /\ read' = Some([colorspace |-> Get(color_space)])
            /\ UNCHANGED color_space
       ELSE /\ read' = Some([colorspace |-> ReadDefaultColorspace])
            /\ color_space' = Some(NormalizeDefault(ReadDefaultColorspace))
    /\ events' = Append(events, "read_create")
    /\ pc' = "wrangle"
    /\ UNCHANGED appVars
    /\ UNCHANGED <<ctx, input_path, output_path, first_frame, last_frame, version,
                   padding, rootProxy, rootFps, allWrites, group,
                   output_node, data, found, path, cubeFile, version_label,
                   prj, description, verSlate, current_user, comment, burn,
                   slate, transcode, exc, prevData>>

\* line 130
WrangleData_mut ==
    /\ pc = "wrangle"
    /\ data' = Some(wrangleData(first_frame, last_frame, rootFps))
    /\ events' = events \o <<"wrangleData", "wrangleData">>
    /\ pc' = "cube_query"
    /\ UNCHANGED appVars
    /\ UNCHANGED <<ctx, input_path, output_path, first_frame, last_frame, version,
                   padding, rootProxy, rootFps, allWrites, color_space, read,
                   group, output_node, found, path, cubeFile, version_label,
                   prj, description, verSlate, current_user, comment, burn,
                   slate, transcode, exc, prevData>>

WrangleData ==
    /\ pc = "wrangle"
    /\ data' = Some(wrangleData(first_frame, last_frame, rootFps))
    /\ events' = Append(events, "wrangleData")
    /\ pc' = "cube_query"
    /\ UNCHANGED appVars
    /\ UNCHANGED <<ctx, input_path, output_path, first_frame, last_frame, version,
                   padding, rootProxy, rootFps, allWrites, color_space, read,
                   group, output_node, found, path, cubeFile, version_label,
                   prj, description, verSlate, current_user, comment, burn,
                   slate, transcode, exc, prevData>>

\* lines 546-549 and 572-575: 'ctx' is not a name of findCubeFile or
\* retrieveComment (their parameter is 'context') nor of the module, so the
\* elif, evaluated when context.task is empty, raises NameError
TaskFilterRaises(c) == c.task = None

\* lines 540-556 (called from line 133)
FindCubeFile_query ==
    /\ pc = "cube_query"
    /\ IF TaskFilterRaises(ctx)
       THEN /\ Raise("NameError", "findCubeFile")
            /\ UNCHANGED <<found, events>>
       ELSE /\ found' \in QueryResults
            /\ events' = Append(events, "query_cube")
            /\ pc' = "cube_loop"
            /\ UNCHANGED exc
    /\ UNCHANGED appVars
    /\ UNCHANGED <<ctx, input_path, output_path, first_frame, last_frame, version,
                   padding, rootProxy, rootFps, allWrites, color_space, read,
                   group, output_node, data, path, cubeFile, version_label,
                   prj, description, verSlate, current_user, comment, burn,
                   slate, transcode, prevData>>

\* lines 558-560
FindCubeFile_loop ==
    /\ pc = "cube_loop"
    /\ path' = CubeLoop(found, None)
    /\ pc' = "cube_return"
    /\ UNCHANGED appVars
    /\ UNCHANGED <<ctx, input_path, output_path, first_frame, last_frame, version,
                   padding, rootProxy, rootFps, allWrites, color_space, read,
                   group, output_node, data, found, cubeFile, version_label,
                   prj, description, verSlate, current_user, comment, burn,
                   slate, transcode, exc, events, prevData>>

\* lines 562-565, then lines 134-137: the LUT node
FindCubeFile_return ==
    /\ pc = "cube_return"
    /\ cubeFile' = CubeReturn(path)
    /\ found' = << >>
    /\ path' = None
    /\ events' = Append(events, "lut_create")
    /\ pc' = "paste"
    /\ UNCHANGED appVars
    /\ UNCHANGED <<ctx, input_path, output_path, first_frame, last_frame, version,
                   padding, rootProxy, rootFps, allWrites, color_space, read,
                   group, output_node, data, version_label, prj, description,
                   verSlate, current_user, comment, burn, slate, transcode,
                   exc, prevData>>

\* lines 146-155: nuke.nodePaste of the burn-in script; the host raises
\* RuntimeError when the script cannot be read.  comp_slate and burn_toggle
\* are knobs of the pasted node.
PasteBurn ==
    /\ pc = "paste"
    /\ \/ /\ \E cs \in BOOLEAN, bt \in BOOLEAN :
                burn' = Some([comp_slate |-> cs, burn_toggle |-> bt,
                              colorspace |-> "", dict |-> None])
          /\ events' = Append(events, "burn_paste")
          /\ pc' = "label"
          /\ UNCHANGED exc
       \/ /\ Raise("RuntimeError", "nodePaste")
          /\ UNCHANGED <<burn, events>>
    /\ UNCHANGED appVars
    /\ UNCHANGED <<ctx, input_path, output_path, first_frame, last_frame, version,
                   padding, rootProxy, rootFps, allWrites, color_space, read,
                   group, output_node, data, found, path, cubeFile,
                   version_label, prj, description, verSlate, current_user,
                   comment, slate, transcode, prevData>>

\* lines 157-169
FormatLabel ==
    /\ pc = "label"
    /\ version_label' = Some(VersionLabel(ctx, version, padding))
    /\ pc' = "project"
    /\ UNCHANGED appVars
    /\ UNCHANGED <<ctx, input_path, output_path, first_frame, last_frame, version,
                   padding, rootProxy, rootFps, allWrites, color_space, read,
                   group, output_node, data, found, path, cubeFile, prj,
                   description, verSlate, current_user, comment, burn, slate,
                   transcode, exc, events, prevData>>

\* line 172, lines 638-646
GetProject ==
    /\ pc = "project"
    /\ \E projects \in ProjectResults :
          LET cur == ProjectLoop(projects, ProjectName, None)
          IN IF cur = None
             THEN /\ Raise("UnboundLocalError", "getProject")
                  /\ UNCHANGED prj
             ELSE /\ prj' = cur
                  /\ pc' = "shot"
                  /\ UNCHANGED exc
    /\ events' = Append(events, "query_project")
    /\ UNCHANGED appVars
    /\ UNCHANGED <<ctx, input_path, output_path, first_frame, last_frame, version,
                   padding, rootProxy, rootFps, allWrites, color_space, read,
                   group, output_node, data, found, path, cubeFile,
                   version_label, description, verSlate, current_user,
                   comment, burn, slate, transcode, prevData>>

\* line 173, lines 606-619: find_one returns None when no Shot matches,
\* and found['description'] then raises TypeError
GetShotDescription ==
    /\ pc = "shot"
    /\ \E shot \in ShotResults :
          IF shot = None
          THEN /\ Raise("TypeError", "getShotDescription")
               /\ UNCHANGED description
          ELSE /\ description' = Get(shot).description
               /\ pc' = "client"
               /\ UNCHANGED exc
    /\ events' = Append(events, "query_shot")
    /\ UNCHANGED appVars
    /\ UNCHANGED <<ctx, input_path, output_path, first_frame, last_frame, version,
                   padding, rootProxy, rootFps, allWrites, color_space, read,
                   group, output_node, data, found, path, cubeFile,
                   version_label, prj, verSlate, current_user, comment, burn,
                   slate, transcode, prevData>>

\* lines 174-178, lines 622-635
GetClientVersionNumber ==
    /\ pc = "client"
    /\ \E shot \in ShotResults :
          IF shot = None
          THEN /\ Raise("TypeError", "getClientVersionNumber")
               /\ UNCHANGED verSlate
          ELSE /\ verSlate' = IF Get(shot).sg_client_version # None
                              THEN Get(shot).sg_client_version
                              ELSE Some(version)
               /\ pc' = "user"
               /\ UNCHANGED exc
    /\ events' = Append(events, "query_client_version")
    /\ UNCHANGED appVars
    /\ UNCHANGED <<ctx, input_path, output_path, first_frame, last_frame, version,
                   padding, rootProxy, rootFps, allWrites, color_space, read,
                   group, output_node, data, found, path, cubeFile,
                   version_label, prj, description, current_user, comment,
                   burn, slate, transcode, prevData>>

\* lines 180-183: get_current_user returns None when no user matches
GetCurrentUser ==
    /\ pc = "user"
    /\ current_user' \in UserResults
    /\ events' = Append(events, "query_user")
    /\ pc' = "comment_query"
    /\ UNCHANGED appVars
    /\ UNCHANGED <<ctx, input_path, output_path, first_frame, last_frame, version,
                   padding, rootProxy, rootFps, allWrites, color_space, read,
                   group, output_node, data, found, path, cubeFile,
                   version_label, prj, description, verSlate, comment, burn,
                   slate, transcode, exc, prevData>>

\* line 184, lines 568-603: the query, then the loop over its result
RetrieveComment_mut ==
    /\ pc = "comment_query"
    /\ comment' = None
    /\ pc' = "burndict"
    /\ UNCHANGED appVars
    /\ UNCHANGED <<ctx, input_path, output_path, first_frame, last_frame, version, padding,
                   rootProxy, rootFps, allWrites, color_space, read, group,
                   output_node, data, found, path, cubeFile, version_label,
                   prj, description, verSlate, current_user, burn, slate,
                   transcode, exc, events, prevData>>

RetrieveComment ==
    /\ pc = "comment_query"
    /\ IF TaskFilterRaises(ctx)
       THEN /\ Raise("NameError", "retrieveComment")
            /\ UNCHANGED <<comment, events>>
       ELSE /\ comment' \in { CommentLoop(fs, NukeScriptName(input_path), None) :
                                 fs \in QueryResults }
            /\ events' = Append(events, "query_comment")
            /\ pc' = "burndict"
            /\ UNCHANGED exc
    /\ UNCHANGED appVars
    /\ UNCHANGED <<ctx, input_path, output_path, first_frame, last_frame, version, padding,
                   rootProxy, rootFps, allWrites, color_space, read, group,
                   output_node, data, found, path, cubeFile, version_label,
                   prj, description, verSlate, current_user, burn, slate,
                   transcode, prevData>>

\* lines 186-207: ctx.task["name"] and current_user['name'] raise TypeError
\* on None; dateSlate (today's date) is left out
SetBurnKnobs ==
    /\ pc = "burndict"
    /\ IF ctx.task = None \/ current_user = None
       THEN /\ Raise("TypeError", "burnDict")
            /\ UNCHANGED <<burn, events>>
       ELSE /\ burn' = Some([Get(burn) EXCEPT
                  !.colorspace = Get(color_space),
                  !.dict = Some([project |-> ProjectName,
                                 shotCode |-> "shot010",
                                 ffSlate |-> first_frame,
                                 lfSlate |-> last_frame,
                                 colorspace |-> Get(color_space),
                                 artist |-> Get(current_user),
                                 fnSlate |-> FnSlate(input_path),
                                 version |-> Get(verSlate),
                                 VersionPadding |-> padding,
                                 task |-> Get(ctx.task),
                                 submission |-> "Final",
                                 scope |-> description,
                                 message |-> comment])])
            /\ events' = Append(events, "burn_knobs")
            /\ pc' = "slate"
            /\ UNCHANGED exc
    /\ UNCHANGED appVars
    /\ UNCHANGED <<ctx, input_path, output_path, first_frame, last_frame, version,
                   padding, rootProxy, rootFps, allWrites, color_space, read,
                   group, output_node, data, found, path, cubeFile,
                   version_label, prj, description, verSlate, current_user,
                   comment, slate, transcode, prevData>>


\* line 215: filetype == '.mov'
IsMov(name) == SplitextExt(name) = <<".", "mov">>

\* lines 215-231 up to the host render call: movSlateRender lines 723-745,
\* exrSlateRender lines 662-695.  With no matching write node settings is
\* None: exrSlateRender raises TypeError at settings['colorspace'] (672),
\* movSlateRender inside createWriteNode at 'for s in settings' (898).
SlateSetup ==
    /\ pc = "slate"
    /\ LET ws == findWriteSettings(allWrites)
           mov == IsMov(input_path)
           render == Get(burn).comp_slate
       IN IF ws.raised
          THEN /\ Raise("UnboundLocalError", "shotgridWriteParse")
               /\ UNCHANGED <<read, burn, slate, rootProxy, events>>
          ELSE IF ws.settings = None
          THEN /\ Raise("TypeError",
                        IF mov THEN "createWriteNode" ELSE "exrSlateRender")
               /\ UNCHANGED <<read, burn, slate, rootProxy, events>>
          ELSE LET cs == Get(ws.settings).colorspace
                   differs == Get(read).colorspace # cs
               IN /\ read' = Some([colorspace |-> cs])
                  /\ burn' = Some([Get(burn) EXCEPT
                        !.colorspace = IF differs THEN cs ELSE @,
                        !.burn_toggle = IF mov /\ render THEN FALSE ELSE @])
                  /\ slate' = Some([mov |-> mov,
                                    is_proxy |-> rootProxy,
                                    burnToggle |-> Get(burn).burn_toggle])
                  /\ rootProxy' = IF mov \/ render THEN FALSE ELSE rootProxy
                  /\ events' = events
                        \o (IF mov THEN <<"slate_write_create">> ELSE << >>)
                        \o (IF differs THEN <<"burn_knob_colorspace">> ELSE << >>)
                        \o (IF mov THEN << >> ELSE <<"slate_write_create">>)
                        \o (IF mov /\ render THEN <<"burn_knob_toggle">> ELSE << >>)
                  /\ pc' = IF render THEN "slate_execute" ELSE "scale"
                  /\ UNCHANGED exc
    /\ UNCHANGED appVars
    /\ UNCHANGED <<ctx, input_path, output_path, first_frame, last_frame, version,
                   padding, rootFps, allWrites, color_space, group,
                   output_node, data, found, path, cubeFile, version_label,
                   prj, description, verSlate, current_user, comment,
                   transcode, prevData>>

\* lines 698-700 and 748-750: nuke.executeMultiple on the slate write node
SlateExecute ==
    /\ pc = "slate_execute"
    /\ \/ /\ events' = Append(events, "slate_execute")
          /\ pc' = "slate_restore"
          /\ UNCHANGED exc
       \/ /\ Raise("RuntimeError", "executeMultiple_slate")
          /\ UNCHANGED events
    /\ UNCHANGED appVars
    /\ UNCHANGED <<ctx, input_path, output_path, first_frame, last_frame, version,
                   padding, rootProxy, rootFps, allWrites, color_space, read,
                   group, output_node, data, found, path, cubeFile,
                   version_label, prj, description, verSlate, current_user,
                   comment, burn, slate, transcode, prevData>>

\* lines 702-706 and 752-760
SlateRestore ==
    /\ pc = "slate_restore"
    /\ burn' = Some([Get(burn) EXCEPT
          !.burn_toggle = IF Get(slate).mov THEN Get(slate).burnToggle ELSE @])
    /\ rootProxy' = IF Get(slate).is_proxy THEN TRUE ELSE rootProxy
    /\ events' = events
          \o (IF Get(slate).mov THEN <<"burn_knob_toggle">> ELSE << >>)
    /\ pc' = "scale"
    /\ UNCHANGED appVars
    /\ UNCHANGED <<ctx, input_path, output_path, first_frame, last_frame, version,
                   padding, rootFps, allWrites, color_space, read, group,
                   output_node, data, found, path, cubeFile, version_label,
                   prj, description, verSlate, current_user, comment, slate,
                   transcode, exc, prevData>>

\* lines 233-245: the scale node, the master Write node (lines 288-322; the
\* path goes to the 'proxy' knob when the root is in proxy mode, else to
\* 'file'), and the slate colorspace matched to the output's
CreateScaleAndOutput_mut ==
    /\ pc = "scale"
    /\ output_node' = Some([knob |-> IF rootProxy THEN "proxy" ELSE "file",
                            colorspace |-> "sRGB"])
    /\ burn' = Some([Get(burn) EXCEPT !.colorspace = "sRGB"])
    /\ events' = events \o <<"scale_create", "output_create",
                              "burn_knob_colorspace", "slate_execute">>
    /\ pc' = "finally"
    /\ UNCHANGED appVars
    /\ UNCHANGED <<ctx, input_path, output_path, first_frame, last_frame, version,
                   padding, rootProxy, rootFps, allWrites, color_space, read,
                   group, data, found, path, cubeFile, version_label, prj,
                   description, verSlate, current_user, comment, slate,
                   transcode, exc, prevData>>

CreateScaleAndOutput ==
    /\ pc = "scale"
    /\ output_node' = Some([knob |-> IF rootProxy THEN "proxy" ELSE "file",
                            colorspace |-> "sRGB"])
    /\ burn' = Some([Get(burn) EXCEPT !.colorspace = "sRGB"])
    /\ events' = events \o <<"scale_create", "output_create", "burn_knob_colorspace">>
    /\ pc' = "finally"
    /\ UNCHANGED appVars
    /\ UNCHANGED <<ctx, input_path, output_path, first_frame, last_frame, version,
                   padding, rootProxy, rootFps, allWrites, color_space, read,
                   group, data, found, path, cubeFile, version_label, prj,
                   description, verSlate, current_user, comment, slate,
                   transcode, exc, prevData>>

\* lines 248-249: group.end(), on the normal path and with an exception in
\* flight, which then leaves render
Finally ==
    /\ pc = "finally"
    /\ group' = "closed"
    /\ events' = Append(events, "group_end")
    /\ pc' = IF exc = None THEN "execute" ELSE "raised"
    /\ UNCHANGED appVars
    /\ UNCHANGED <<ctx, input_path, output_path, first_frame, last_frame, version,
                   padding, rootProxy, rootFps, allWrites, color_space, read,
                   output_node, data, found, path, cubeFile, version_label,
                   prj, description, verSlate, current_user, comment, burn,
                   slate, transcode, exc, prevData>>

\* lines 251-259: the host render call of the master movie
ExecuteMaster_mut ==
    /\ pc = "execute"
    /\ IF output_node = None
       THEN /\ pc' = "delete"
            /\ UNCHANGED <<events, exc>>
       ELSE \/ /\ events' = Append(events, "master_execute")
               /\ pc' = "delete"
               /\ UNCHANGED exc
            \/ /\ exc' = Some([type |-> "RuntimeError", at |-> "executeMultiple_master"])
               /\ pc' = "delete"
               /\ UNCHANGED events
    /\ UNCHANGED appVars
    /\ UNCHANGED <<ctx, input_path, output_path, first_frame, last_frame, version,
                   padding, rootProxy, rootFps, allWrites, color_space, read,
                   group, output_node, data, found, path, cubeFile,
                   version_label, prj, description, verSlate, current_user,
                   comment, burn, slate, transcode, prevData>>

ExecuteMaster ==
    /\ pc = "execute"
    /\ IF output_node = None
       THEN /\ pc' = "delete"
            /\ UNCHANGED <<events, exc>>
       ELSE \/ /\ events' = Append(events, "master_execute")
               /\ pc' = "delete"
               /\ UNCHANGED exc
            \/ /\ exc' = Some([type |-> "RuntimeError", at |-> "executeMultiple_master"])
               /\ pc' = "raised"
               /\ UNCHANGED events
    /\ UNCHANGED appVars
    /\ UNCHANGED <<ctx, input_path, output_path, first_frame, last_frame, version,
                   padding, rootProxy, rootFps, allWrites, color_space, read,
                   group, output_node, data, found, path, cubeFile,
                   version_label, prj, description, verSlate, current_user,
                   comment, burn, slate, transcode, prevData>>

\* lines 261-262
DeleteGroup ==
    /\ pc = "delete"
    /\ group' = "deleted"
    /\ events' = Append(events, "group_delete")
    /\ pc' = "transcode"
    /\ UNCHANGED appVars
    /\ UNCHANGED <<ctx, input_path, output_path, first_frame, last_frame, version,
                   padding, rootProxy, rootFps, allWrites, color_space, read,
                   output_node, data, found, path, cubeFile, version_label,
                   prj, description, verSlate, current_user, comment, burn,
                   slate, transcode, exc, prevData>>

\* line 264, lines 522-537, and what createFilmstrip puts in its filter
\* (lines 503-509); line 266
TranscodeFile ==
    /\ pc = "transcode"
    /\ transcode' = Some(EncoderArgs(output_path, Get(data)))
    /\ events' = events \o <<"encode_mp4", "encode_webm", "encode_thumbnail",
                             "encode_filmstrip">>
    /\ pc' = "done"
    /\ UNCHANGED appVars
    /\ UNCHANGED <<ctx, input_path, output_path, first_frame, last_frame, version,
                   padding, rootProxy, rootFps, allWrites, color_space, read,
                   group, output_node, data, found, path, cubeFile,
                   version_label, prj, description, verSlate, current_user,
                   comment, burn, slate, exc, prevData>>

\* render is called again with the same frame range (lines 74-85); the
\* host keeps its state, the locals are fresh
RenderAgain ==
    /\ pc \in {"done", "raised"}
    /\ prevData = None
    /\ data # None
    /\ prevData' = data
    /\ pc' = "start"
    /\ color_space' \in {None, Some("sRGB")}
    /\ group' = "none"
    /\ found' = << >>
    /\ events' = << >>
    /\ read' = None
    /\ output_node' = None
    /\ data' = None
    /\ path' = None
    /\ cubeFile' = None
    /\ version_label' = None
    /\ prj' = None
    /\ description' = None
    /\ verSlate' = None
    /\ current_user' = None
    /\ comment' = None
    /\ burn' = None
    /\ slate' = None
    /\ transcode' = None
    /\ exc' = None
    /\ UNCHANGED appVars
    /\ UNCHANGED <<argVars, hostVars>>

\* between two calls the artist changes the project's frame rate, the
\* value line 397 reads
HostSetFps ==
    /\ pc = "start"
    /\ prevData # None
    /\ rootFps' \in FpsSet \ {rootFps}
    /\ UNCHANGED appVars
    /\ UNCHANGED <<pc, ctx, input_path, output_path, first_frame, last_frame, version,
                   padding, rootProxy, allWrites, color_space, read, group,
                   output_node, data, found, path, cubeFile, version_label,
                   prj, description, verSlate, current_user, comment, burn,
                   slate, transcode, exc, events, prevData>>

NextRender ==
    \/ StartRender
    \/ CreateRead
    \/ WrangleData
    \/ FindCubeFile_query
    \/ FindCubeFile_loop
    \/ FindCubeFile_return
    \/ PasteBurn
    \/ FormatLabel
    \/ GetProject
    \/ GetShotDescription
    \/ GetClientVersionNumber
    \/ GetCurrentUser
    \/ RetrieveComment
    \/ SetBurnKnobs
    \/ SlateSetup
    \/ SlateExecute
    \/ SlateRestore
    \/ CreateScaleAndOutput
    \/ Finally
    \/ ExecuteMaster
    \/ DeleteGroup
    \/ TranscodeFile
    \/ RenderAgain
    \/ HostSetFps

AppIdle ==
    /\ app_pc = "idle"
    /\ upload_to_shotgun = TRUE
    /\ store_on_disk = TRUE
    /\ fields = << >>
    /\ fields_copy = None
    /\ app_log = << >>
    /\ output_on_disk = FALSE
    /\ sg_version = None
    /\ app_exc = None

RenderIdle ==
    /\ pc = "start"
    /\ ctx = [task |-> None, step |-> None]
    /\ input_path = MovInput
    /\ output_path = MovOutput
    /\ color_space = None
    /\ first_frame = FirstFrame
    /\ last_frame = FirstFrame
    /\ version = 0
    /\ padding = 0
    /\ rootProxy = FALSE
    /\ rootFps = ProjectFps
    /\ allWrites = << >>
    /\ NoLocals
    /\ prevData = None

Init == InitRender /\ AppIdle
Next == NextRender
Spec == Init /\ [][Next]_vars

InitAppSpec == InitApp /\ RenderIdle
SpecApp == InitAppSpec /\ [][NextApp]_vars


(***************************************************************************)
(* wrangleData over a range of frame ranges: ff, lf and the host's fps are *)
(* drawn in the initial state, the one action applies the function         *)
(***************************************************************************)

MaxFrames == 120
PlanFirstFrames == {1, FirstFrame}

InitPlan ==
    /\ AppIdle
    /\ pc = "planner"
    /\ ctx = [task |-> None, step |-> None]
    /\ input_path = MovInput
    /\ output_path = MovOutput
    /\ color_space = None
    /\ first_frame \in PlanFirstFrames
    /\ \E n \in 1..MaxFrames : last_frame = first_frame + n - 1
    /\ version = 0
    /\ padding = 0
    /\ rootProxy = FALSE
    /\ rootFps \in FpsSet
    /\ allWrites = << >>
    /\ NoLocals
    /\ prevData = None

\* a call of wrangleData(ff, lf), lines 387-403
PlannerCall ==
    /\ pc = "planner"
    /\ data' = Some(wrangleData(first_frame, last_frame, rootFps))
    /\ pc' = "planned"
    /\ UNCHANGED appVars
    /\ UNCHANGED <<argVars, hostVars, color_space, read, group, output_node,
                   found, path, cubeFile, version_label, prj, description,
                   verSlate, current_user, comment, burn, slate, transcode,
                   exc, events, prevData>>

\* a call of TranscodeFile(output_path, data) with that plan, lines 522-537
PlannerTranscode ==
    /\ pc = "planned"
    /\ transcode' = Some(EncoderArgs(output_path, Get(data)))
    /\ pc' = "transcoded"
    /\ UNCHANGED appVars
    /\ UNCHANGED <<argVars, hostVars, color_space, read, group, output_node,
                   data, found, path, cubeFile, version_label, prj,
                   description, verSlate, current_user, comment, burn, slate,
                   exc, events, prevData>>

NextPlan ==
    \/ PlannerCall
    \/ PlannerTranscode

SpecPlan == InitPlan /\ [][NextPlan]_vars

(***************************************************************************)
(* Properties                                                              *)
(***************************************************************************)

Configured == upload_to_shotgun \/ store_on_disk

ProgressCalls == SelectSeq(app_log, LAMBDA e : e.ev = "progress")

\* position of the first entry named n in the log, 0 when absent
LogIndex(log, n) ==
    IF \E i \in DOMAIN log : log[i].ev = n
    THEN CHOOSE i \in DOMAIN log : log[i].ev = n /\ \A j \in 1..(i - 1) : log[j].ev # n
    ELSE 0

\* C1: with upload_to_shotgun and store_on_disk both false, render_and_submit
\* logs a warning and returns None without raising; the progress callback is
\* never invoked, no render is started and no version is submitted.
C1_NotConfiguredReturnsNone ==
    (~upload_to_shotgun /\ ~store_on_disk /\ app_pc # "idle")
        => /\ app_pc = "returned"
           /\ sg_version = None
           /\ app_exc = None
           /\ app_log = <<Ev("log_warning")>>

C1_Witness ==
    ~upload_to_shotgun /\ ~store_on_disk /\ app_pc = "returned"

\* C2: a configured call that returns normally has invoked the progress
\* callback exactly three times, 10, 20, 50 in this order; 20 comes before
\* the render starts, 50 after the render has returned and before the
\* version is submitted.
C2_ProgressMilestones ==
    (Configured /\ app_pc = "returned")
        => /\ ProgressCalls = <<Progress(10, "Preparing"),
                                Progress(20, "Rendering movie"),
                                Progress(50, "Creating Shotgun Version and uploading movie")>>
           /\ LET p20 == CHOOSE i \in DOMAIN app_log :
                            app_log[i] = Progress(20, "Rendering movie")
                  p50 == CHOOSE i \in DOMAIN app_log : app_log[i].ev = "progress"
                            /\ app_log[i].pct = 50
              IN /\ LogIndex(app_log, "render_start") > p20
                 /\ LogIndex(app_log, "render_return") > LogIndex(app_log, "render_start")
                 /\ p50 > LogIndex(app_log, "render_return")
                 /\ LogIndex(app_log, "submit_start") > p50

C2_Witness ==
    /\ Configured
    /\ app_pc = "returned"
    /\ sg_version = Some("Version")
    /\ Len(ProgressCalls) = 3


\* q = floor(a / b), said without division
IsFloor(q, a, b) == q * b <= a /\ a < (q + 1) * b

FrameCount == last_frame - first_frame + 1

\* C3 as claimed: frame_count = f1 - f0 + 1; below 50 frames interval and
\* tile_count both equal frame_count, otherwise interval = floor(frame_count/50)
\* and tile_count = floor(frame_count/interval).
C3_PlanAsClaimed ==
    data # None =>
        LET p == Get(data)
        IN /\ p.frames = FrameCount
           /\ IF FrameCount < 50
              THEN p.interval = FrameCount /\ p.num_frames = FrameCount
              ELSE /\ p.interval >= 1
                   /\ IsFloor(p.interval, FrameCount, 50)
                   /\ IsFloor(p.num_frames, FrameCount, p.interval)

\* C3 as amended: below 50 frames the interval is left at 0, the value of
\* floor(frame_count/50), and tile_count equals frame_count; otherwise
\* interval = floor(frame_count/50) and tile_count = floor(frame_count/interval).
C3_PlanAsComputed ==
    data # None =>
        LET p == Get(data)
        IN /\ p.frames = FrameCount
           /\ IF FrameCount < 50
              THEN p.interval = 0 /\ p.num_frames = FrameCount
              ELSE /\ p.interval >= 1
                   /\ IsFloor(p.interval, FrameCount, 50)
                   /\ IsFloor(p.num_frames, FrameCount, p.interval)

C3_Witness ==
    /\ pc = "planned"
    /\ FrameCount = 49
    /\ Get(data).interval = 0
    /\ Get(data).num_frames = 49

\* C4 as claimed: the plan handed to TranscodeFile has interval >= 1, for
\* ranges shorter than 50 frames too.
C4_IntervalAtLeastOne ==
    (pc = "transcode" /\ data # None) => Get(data).interval >= 1

\* C4 as amended: the plan's interval is >= 0 and is >= 1 exactly when the
\* range has at least 50 frames; what TranscodeFile hands to the filmstrip
\* encoder is max(interval, 1), which is >= 1.
C4_IntervalClampedAtUse ==
    /\ data # None =>
          /\ Get(data).interval >= 0
          /\ (Get(data).interval >= 1) <=> (FrameCount >= 50)
    /\ transcode # None =>
          /\ Get(transcode).stride >= 1
          /\ Get(transcode).stride >= Get(data).interval
          /\ Get(transcode).stride \in {1, Get(data).interval}

C4_Witness ==
    /\ pc = "done"
    /\ FrameCount < 50
    /\ Get(data).interval = 0
    /\ Get(transcode).stride = 1

Count(seq, e) == Cardinality({ i \in DOMAIN seq : seq[i] = e })

PlanFields == {"frames", "interval", "num_frames", "thumb"}

ClaimedLabel(c, v, n) ==
    LET name == IF c.task # None THEN c.task
                ELSE IF c.step # None THEN c.step ELSE None
    IN IF name # None THEN Get(name) \o ", v" \o ZeroPad(v, n)
       ELSE "v" \o ZeroPad(v, n)

HostFailures == {"nodePaste", "executeMultiple_slate", "executeMultiple_master"}

RenderExited == pc \in {"done", "raised"}

\* C6: render builds the version label '<task or step name>, v<padded>',
\* and 'v<padded>' for a context with neither task nor step: every call the
\* host does not fail has built it when it exits.
C6_LabelBuilt ==
    (RenderExited /\ (exc = None \/ Get(exc).at \notin HostFailures))
        => version_label = Some(ClaimedLabel(ctx, version, padding))

\* the path of the 'Cube File' with the highest version number in a query
\* result, None when it holds none
HighestCube(fs) ==
    LET cubes == { i \in DOMAIN fs : fs[i].published_file_type = "Cube File" }
    IN IF cubes = {} THEN None
       ELSE LET top == CHOOSE i \in cubes :
                          \A j \in cubes : fs[i].version_number >= fs[j].version_number
            IN Some(fs[top].local_path)

\* C7: the path findCubeFile is about to return is that of the 'Cube File'
\* with the highest version number in the query result, None without one.
C7_HighestCubeWins ==
    pc = "cube_return" => path = HighestCube(found)

LookupSites == {"getProject", "getShotDescription", "getClientVersionNumber",
                "exrSlateRender", "createWriteNode"}

\* C8: a metadata lookup that finds no match never raises.
C8_LookupMissNeverRaises ==
    exc # None => Get(exc).at \notin LookupSites

TaskSites == {"findCubeFile", "retrieveComment", "burnDict"}

\* C9: for a context without a task, findCubeFile, retrieveComment and the
\* assembly of the burn-in dictionary do not raise.
C9_TaskOptional ==
    (ctx.task = None /\ exc # None) => Get(exc).at \notin TaskSites

\* C10: when render exits, normally or by an exception, the group node it
\* created has been deleted (said of the contexts with a task, whose calls
\* get past findCubeFile).
C10_GroupDeletedOnExit ==
    (RenderExited /\ ctx.task # None) => group = "deleted"

\* event a has happened
Occurs(a) == \E i \in DOMAIN events : events[i] = a

\* every b is preceded by an a
Precedes(a, b) ==
    \A j \in DOMAIN events :
        events[j] = b => \E i \in 1..(j - 1) : events[i] = a

\* no b happens before an a
Before(a, b) ==
    \A i, j \in DOMAIN events : (events[i] = a /\ events[j] = b) => i < j

Encoders == {"encode_mp4", "encode_webm", "encode_thumbnail", "encode_filmstrip"}

\* READ_SOURCE, APPLY_COLOR, COMPOSITE_BURNIN, SCALE, WRITE, DONE in order
StageOrder ==
    /\ Precedes("read_create", "lut_create")
    /\ Precedes("lut_create", "burn_paste")
    /\ Precedes("burn_paste", "scale_create")
    /\ Precedes("scale_create", "output_create")
    /\ Precedes("output_create", "master_execute")
    /\ \A e \in Encoders : Precedes("master_execute", e)

\* C11 as claimed: the stages are in order, and the slate frame is rendered
\* only after the scale node and the master output node have been created
\* and the master movie has been written.
C11_SlateAfterWrite ==
    /\ StageOrder
    /\ Precedes("scale_create", "slate_execute")
    /\ Precedes("output_create", "slate_execute")
    /\ Precedes("master_execute", "slate_execute")

\* C11: the stages READ_SOURCE, APPLY_COLOR, COMPOSITE_BURNIN, SCALE, WRITE,
\* DONE occur in this order, and the optional slate render comes after the
\* burn-in node is set up and before the scale node and the master output
\* node are created and the master movie is written.
C11_SlateBeforeScale ==
    /\ StageOrder
    /\ Precedes("burn_knobs", "slate_execute")
    /\ Before("slate_execute", "scale_create")
    /\ Before("slate_execute", "output_create")
    /\ Before("slate_execute", "master_execute")

C11_Witness ==
    /\ pc = "done"
    /\ Occurs("slate_execute")
    /\ Occurs("master_execute")

Queries == {"query_cube", "query_project", "query_shot",
            "query_client_version", "query_user", "query_comment"}

NodeCreates == {"group_create", "read_create", "lut_create", "burn_paste",
                "slate_write_create", "scale_create", "output_create"}

RenderCalls == {"slate_execute", "master_execute"}

BurnKnobWrites == {"burn_knobs", "burn_knob_colorspace", "burn_knob_toggle"}

\* C12 as claimed: every query that fills the burn-in record has returned
\* before the first node of the render graph is created, and no knob of the
\* burn-in node is written after a render call.
C12_ResolvedBeforeGraph ==
    /\ \A q \in Queries, n \in NodeCreates : Before(q, n)
    /\ \A r \in RenderCalls, k \in BurnKnobWrites : Before(k, r)

\* C12: every query that fills the burn-in record has returned before the
\* record's knobs are written on the burn-in node, and the record's knobs
\* are written before any render call (slate or master) and never after
\* one; the Read node exists before the first query is made.
C12_ResolvedBeforeKnobs ==
    /\ \A q \in Queries : Precedes(q, "burn_knobs") /\ Precedes("read_create", q)
    /\ \A r \in RenderCalls :
          Precedes("burn_knobs", r) /\ Before("burn_knobs", r)

C12_Witness ==
    /\ pc = "done"
    /\ \E i, j \in DOMAIN events :
          /\ i < j
          /\ events[i] = "slate_execute"
          /\ events[j] \in {"burn_knob_colorspace", "burn_knob_toggle"}

\* C13: no encoder is invoked before the host render call of the master
\* movie has returned; that call is made at most once in a render; when it
\* raises, the exception leaves render as it was raised and no encoder is
\* invoked.
C13_EncodersAfterMaster ==
    /\ \A e \in Encoders : Precedes("master_execute", e)
    /\ Count(events, "master_execute") <= 1
    /\ (exc # None /\ Get(exc).at = "executeMultiple_master")
          => /\ pc = "raised"
             /\ Get(exc).type = "RuntimeError"
             /\ transcode = None
             /\ \A e \in Encoders : ~Occurs(e)
             /\ ~Occurs("master_execute")

C13_Witness ==
    /\ pc = "done"
    /\ transcode # None
    /\ \A e \in Encoders : Occurs(e)

\* the root's proxy flag on entry to render: nothing before the slate
\* helpers writes it, and they read it into is_proxy
EntryProxy == Get(slate).is_proxy

\* C14: the master output node has its path on the 'proxy' knob when the
\* root's proxy mode was on at the start of render and on the 'file' knob
\* when it was off, for image-sequence and .mov inputs.
C14_KnobFollowsEntryProxy ==
    output_node # None
        => Get(output_node).knob = IF EntryProxy THEN "proxy" ELSE "file"

\* C19: on normal return from exrSlateRender or movSlateRender the root's
\* proxy flag and the burn-in node's burn_toggle knob have the values they
\* had on entry, whether the 'render' argument is true or false.
C19_SlateRestoresHost ==
    (pc = "scale" /\ slate # None)
        => /\ rootProxy = Get(slate).is_proxy
           /\ Get(burn).burn_toggle = Get(slate).burnToggle

EndsWith(p, suffix) ==
    /\ Len(p) >= Len(suffix)
    /\ SubSeq(p, Len(p) - Len(suffix) + 1, Len(p)) = suffix

StartsWith(p, prefix) ==
    /\ Len(p) >= Len(prefix)
    /\ SubSeq(p, 1, Len(prefix)) = prefix

\* C15: the four derivative paths are pairwise different, lie in
\* <master dir>/transcodes/<master name>/ and end in .mp4, .webm,
\* _thumbnail.jpg and _filmstrip.jpg, whatever the master's extension is.
C15_DerivativesDisjoint ==
    transcode # None
        => LET t == Get(transcode)
               ps == <<t.mp4, t.webm, t.thumbnail, t.filmstrip>>
               dir == Dirname(output_path) \o <<"/", "transcodes", "/">>
                         \o SplitextRoot(Basename(output_path)) \o <<"/">>
           IN /\ \A i, j \in 1..4 : i # j => ps[i] # ps[j]
              /\ \A i \in 1..4 : StartsWith(ps[i], dir)
              /\ EndsWith(t.mp4, <<".", "mp4">>)
              /\ EndsWith(t.webm, <<".", "webm">>)
              /\ EndsWith(t.thumbnail, <<"_", "thumbnail", ".", "jpg">>)
              /\ EndsWith(t.filmstrip, <<"_", "filmstrip", ".", "jpg">>)

Logged(n) == \E i \in DOMAIN app_log : app_log[i].ev = n

\* C16: after a normal return of a configured render_and_submit the movie
\* is still on disk when store_on_disk is true and no file is at the output
\* path when it is false; the file is removed only after submit_version has
\* returned.
C16_KeptIffStoreOnDisk ==
    /\ (Configured /\ app_pc = "returned")
          => /\ store_on_disk => (output_on_disk /\ ~Logged("unlink"))
             /\ ~store_on_disk => ~output_on_disk
    /\ Logged("unlink")
          => /\ Logged("submit_return")
             /\ LogIndex(app_log, "submit_return") < LogIndex(app_log, "unlink")
    /\ (Logged("render_return") /\ ~Logged("unlink")) => output_on_disk

C16_Witness ==
    /\ app_pc = "returned"
    /\ upload_to_shotgun
    /\ ~store_on_disk
    /\ Logged("unlink")
    /\ ~output_on_disk

\* C17: render_and_submit never changes the caller's fields dictionary: the
\* sequence-key overrides and the width/height entries go to the copy.
C17_FieldsUnchanged == [][fields' = fields]_vars

C17_Witness ==
    /\ app_pc \in {"returned", "raised"}
    /\ fields_copy # None
    /\ Get(fields_copy) # fields
    /\ "SEQ" \in DOMAIN fields
    /\ Get(fields_copy)["SEQ"] # fields["SEQ"]

Max(a, b) == IF a >= b THEN a ELSE b

\* C18: the stride in the filmstrip filter's mod(n, N) is max(plan
\* interval, 1), never 0, and the tile count in the command is the plan's
\* tile_count, which is at least 1.
C18_StrideAndTiles ==
    transcode # None
        => /\ Get(transcode).stride = Max(Get(data).interval, 1)
           /\ Get(transcode).stride # 0
           /\ Get(transcode).tiles = Get(data).num_frames
           /\ Get(transcode).tiles >= 1

C18_Witness ==
    /\ pc = "transcoded"
    /\ FrameCount < IntervalDivisor
    /\ Get(transcode).stride = 1
    /\ Get(transcode).tiles = FrameCount

====
